---- MODULE Spec2Model ----
(***************************************************************************)
(* Model of the generic object pool of epikur-io/go-pool.                  *)
(*                                                                         *)
(* A Pool is a buffered Go channel of capacity `size`, filled at           *)
(* construction by the factory function, plus a mutex that only the bulk   *)
(* operations (LockedRun, and the older Update / UpdateWithTimeout) take.  *)
(* Callers are goroutines; every method is modelled as a call step (the    *)
(* code up to the channel operation) followed by the channel operation,    *)
(* which is the only place a goroutine can be suspended.  The channel is   *)
(* the FIFO sequence `pool`: a receive needs a buffered element, a send    *)
(* needs a free slot, a select takes any ready case.  The runtime's direct *)
(* hand-off between a waiting goroutine and its partner appears here as    *)
(* the send followed by the receive.  The bulk bodies modelled are the     *)
(* drain-and-refill of Update and UpdateWithTimeout, which the tests run   *)
(* under LockedRun.                                                        *)
(***************************************************************************)
EXTENDS Integers, Sequences, FiniteSets, TLC

\* ------------------------------------------------------------------ bounds
NProcs == 3      \* number of concurrent callers (goroutines)
MaxCap == 2      \* largest capacity passed to NewPool
MaxCalls == 3    \* number of method calls made in one run

Procs == 1..NProcs
Nil == 0         \* the nil *T; instances made by the factory are 1, 2, ...
NoProc == 0      \* value of an unlocked mutex

VARIABLES
  size,      \* Pool.size: the capacity given to NewPool
  pool,      \* Pool.pool: the channel's buffer, oldest element first
  mux,       \* Pool.mux: NoProc when unlocked, else the goroutine holding it
  nextId,    \* the factory's next fresh instance
  pc,        \* where each goroutine is
  v,         \* the local v of a release, or the instance a fill pass made for its send
  arg,       \* the argument the caller passed to that release (Nil for nil)
  drop,      \* the instances the caller gives up when that release succeeds
  done,      \* the timer channel c or ctx.Done(): "never", "pending", "fired"
  op,        \* the bulk operation a goroutine is running: "", "Update", ...
  i,         \* the loop counter of the running drain or fill loop
  removedInstanceCount,  \* UpdateWithTimeout's first result
  newInstanceCount,      \* UpdateWithTimeout's second result
  ret,       \* the last return: who returned from which call with what
  held,      \* the instances each caller got from an acquire and still has
  calls,     \* number of calls made so far (bounded by MaxCalls)
  acquired,  \* history: acquire calls that returned an instance
  released,  \* history: insertions made by Release and the TryRelease variants
  drained,   \* history: instances removed by the drain loops of bulk operations
  startLen,  \* history: Len() when the goroutine's bulk operation took the lock
  startRel,  \* history: `released` at that moment
  fnErr,     \* what the caller's function (of LockedRun or Run) returned
  made,      \* history: the instances the goroutine's bulk operation has made
  mark,      \* history: the factory's next instance when its drain loop ended
  filled,    \* history: instances inserted by the fill loops of bulk operations
  parked     \* history: who was suspended in Acquire when the last release sent
             \* (the releases counted by `released`)

vars == <<size, pool, mux, nextId, pc, v, arg, drop, done, op, i,
          removedInstanceCount, newInstanceCount, ret, held, calls,
          acquired, released, drained, startLen, startRel,
          fnErr, made, mark, filled, parked>>

\* ------------------------------------------------------- pure definitions
PoolLen == Len(pool)            \* Pool.Len
Cap == size                     \* Pool.Cap

NoRet ==
  [by |-> NoProc, op |-> "", val |-> Nil, err |-> "nil", removed |-> 0, added |-> 0]
Result(p, o, x, e) ==
  [by |-> p, op |-> o, val |-> x, err |-> e, removed |-> 0, added |-> 0]

\* the pool after NewPool(n, factoryFunc): n instances, made in order
RECURSIVE Filled(_)
Filled(n) == IF n = 0 THEN <<>> ELSE Append(Filled(n - 1), n)

Elems(s) == {s[k] : k \in 1..Len(s)}
Created == 1..(nextId - 1)
\* goroutine p is inside Pool.Acquire, at its `<-p.pool`: it called Acquire
\* itself, or Run did as its first statement, or the drain loop of the
\* function TestUpdate passes to LockedRun did
InAcquire(p) ==
  \/ pc[p] = "Acquire"
  \/ pc[p] = "Run"
  \/ pc[p] = "drain" /\ op[p] = "LockedRunUpdate"

\* the goroutines suspended in Acquire's `<-p.pool`: they are at the receive
\* and the buffer has nothing for them
Waiting == IF PoolLen = 0 THEN {p \in Procs : InAcquire(p)} ELSE {}

\* the instances buffered or in some caller's hands
Live == Elems(pool) \cup UNION {held[p] : p \in Procs}

Init ==
  /\ size \in 1..MaxCap
  /\ pool = Filled(size)
  /\ mux = NoProc
  /\ nextId = size + 1
  /\ pc = [p \in Procs |-> "idle"]
  /\ v = [p \in Procs |-> Nil]
  /\ arg = [p \in Procs |-> Nil]
  /\ drop = [p \in Procs |-> {}]
  /\ done = [p \in Procs |-> "never"]
  /\ op = [p \in Procs |-> ""]
  /\ i = [p \in Procs |-> 0]
  /\ removedInstanceCount = [p \in Procs |-> 0]
  /\ newInstanceCount = [p \in Procs |-> 0]
  /\ ret = NoRet
  /\ held = [p \in Procs |-> {}]
  /\ calls = 0
  /\ acquired = 0
  /\ released = 0
  /\ drained = 0
  /\ startLen = [p \in Procs |-> 0]
  /\ startRel = [p \in Procs |-> 0]
  /\ fnErr = [p \in Procs |-> "nil"]
  /\ made = [p \in Procs |-> {}]
  /\ mark = [p \in Procs |-> 0]
  /\ filled = 0
  /\ parked = {}

\* frame conditions
BulkUnch == UNCHANGED <<mux, op, i, removedInstanceCount, newInstanceCount,
                        drained, startLen, startRel, fnErr, made, mark, filled>>
SendUnch == UNCHANGED <<v, arg, drop>>

\* a goroutine starts a call: it is idle and the run's call budget is not spent
Start(p) ==
  /\ pc[p] = "idle"
  /\ calls < MaxCalls
  /\ calls' = calls + 1
  /\ ret' = NoRet

\* the timer of time.After or the context's Done channel fires
Fire(p) ==
  /\ done[p] = "pending"
  /\ done' = [done EXCEPT ![p] = "fired"]
  /\ UNCHANGED <<size, pool, mux, nextId, pc, v, arg, drop, op, i,
                 removedInstanceCount, newInstanceCount, ret, held, calls,
                 acquired, released, parked, drained, startLen, startRel,
                 fnErr, made, mark, filled>>

\* ---------------------------------------------------------------- acquire
\* mutant: the receive hands out the oldest instance but leaves it buffered
Recv_Peek(p, name) ==
  /\ PoolLen > 0
  /\ pool' = pool
  /\ ret' = Result(p, name, Head(pool), "nil")
  /\ held' = [held EXCEPT ![p] = @ \cup {Head(pool)}]
  /\ acquired' = acquired + 1
  /\ pc' = [pc EXCEPT ![p] = "idle"]
  /\ done' = [done EXCEPT ![p] = "never"]
  /\ UNCHANGED <<size, nextId, calls, released, parked>>
  /\ BulkUnch /\ SendUnch

\* the receive `v := <-p.pool` of the three acquire variants
Recv(p, name) ==
  /\ PoolLen > 0
  /\ pool' = Tail(pool)
  /\ ret' = Result(p, name, Head(pool), "nil")
  /\ held' = [held EXCEPT ![p] = @ \cup {Head(pool)}]
  /\ acquired' = acquired + 1
  /\ pc' = [pc EXCEPT ![p] = "idle"]
  /\ done' = [done EXCEPT ![p] = "never"]
  /\ UNCHANGED <<size, nextId, calls, released, parked>>
  /\ BulkUnch /\ SendUnch

\* mutant: on timeout the acquire makes up an instance and returns it
AcquireFail_Fabricate(p, name, e) ==
  /\ done[p] = "fired"
  /\ ret' = Result(p, name, nextId, "nil")
  /\ nextId' = nextId + 1
  /\ held' = [held EXCEPT ![p] = @ \cup {nextId}]
  /\ pc' = [pc EXCEPT ![p] = "idle"]
  /\ done' = [done EXCEPT ![p] = "never"]
  /\ UNCHANGED <<size, pool, calls, acquired, released, parked>>
  /\ BulkUnch /\ SendUnch

\* mutant: the timed-out acquire has received an instance and discards it
AcquireFail_Lose(p, name, e) ==
  /\ done[p] = "fired"
  /\ pool' = IF PoolLen > 0 THEN Tail(pool) ELSE pool
  /\ ret' = Result(p, name, Nil, e)
  /\ pc' = [pc EXCEPT ![p] = "idle"]
  /\ done' = [done EXCEPT ![p] = "never"]
  /\ UNCHANGED <<size, nextId, held, calls, acquired, released, parked>>
  /\ BulkUnch /\ SendUnch

\* the timeout or cancellation case of a select in an acquire variant
AcquireFail(p, name, e) ==
  /\ done[p] = "fired"
  /\ ret' = Result(p, name, Nil, e)
  /\ pc' = [pc EXCEPT ![p] = "idle"]
  /\ done' = [done EXCEPT ![p] = "never"]
  /\ UNCHANGED <<size, pool, nextId, held, calls, acquired, released, parked>>
  /\ BulkUnch /\ SendUnch

AcquireCall(p) ==
  /\ Start(p)
  /\ pc' = [pc EXCEPT ![p] = "Acquire"]
  /\ UNCHANGED <<size, pool, nextId, done, held, acquired, released, parked>>
  /\ BulkUnch /\ SendUnch

\* mutant: Acquire does not wait on an empty buffer but returns nil
Acquire_NonBlocking(p) ==
  /\ pc[p] = "Acquire"
  /\ \/ Recv(p, "Acquire")
     \/ /\ PoolLen = 0
        /\ ret' = Result(p, "Acquire", Nil, "nil")
        /\ acquired' = acquired + 1
        /\ pc' = [pc EXCEPT ![p] = "idle"]
        /\ UNCHANGED <<size, pool, nextId, done, held, calls, released, parked>>
        /\ BulkUnch /\ SendUnch

\* mutant: Acquire waits until no locked body holds the mutex
Acquire_Locked(p) == pc[p] = "Acquire" /\ mux = NoProc /\ Recv(p, "Acquire")

\* mutant: a waiting Acquire is woken only by the release that fills the buffer
Acquire_WokenWhenFull(p) == pc[p] = "Acquire" /\ PoolLen = Cap /\ Recv(p, "Acquire")

Acquire(p) == pc[p] = "Acquire" /\ Recv(p, "Acquire")

AcquireWithTimeoutCall(p) ==
  /\ Start(p)
  /\ pc' = [pc EXCEPT ![p] = "AcquireWithTimeout"]
  /\ done' = [done EXCEPT ![p] = "pending"]
  /\ UNCHANGED <<size, pool, nextId, held, acquired, released, parked>>
  /\ BulkUnch /\ SendUnch

AcquireWithTimeoutRecv(p) ==
  pc[p] = "AcquireWithTimeout" /\ Recv(p, "AcquireWithTimeout")

AcquireWithTimeoutExpire(p) ==
  pc[p] = "AcquireWithTimeout" /\ AcquireFail(p, "AcquireWithTimeout", "timeout")

\* ctx is nil or Background ("never"), live ("pending") or already done ("fired")
CtxStates == {"never", "pending", "fired"}

AcquireWithContextCall(p, ctx) ==
  /\ Start(p)
  /\ pc' = [pc EXCEPT ![p] = "AcquireWithContext"]
  /\ done' = [done EXCEPT ![p] = ctx]
  /\ UNCHANGED <<size, pool, nextId, held, acquired, released, parked>>
  /\ BulkUnch /\ SendUnch

AcquireWithContextRecv(p) ==
  pc[p] = "AcquireWithContext" /\ Recv(p, "AcquireWithContext")

AcquireWithContextDone(p) ==
  pc[p] = "AcquireWithContext" /\ AcquireFail(p, "AcquireWithContext", "ctx.Err")

\* ---------------------------------------------------------------- release
\* mutant: nil is sent as it is, the factory is not called
ReleaseArg_NoFactory(p, x, d) ==
  /\ v' = [v EXCEPT ![p] = x]
  /\ nextId' = nextId
  /\ arg' = [arg EXCEPT ![p] = x]
  /\ drop' = [drop EXCEPT ![p] = d]

\* `if v == nil { v = p.factoryFunc() }`: x is the argument, d what the caller
\* gives up if the release succeeds
ReleaseArg(p, x, d) ==
  /\ v' = [v EXCEPT ![p] = IF x = Nil THEN nextId ELSE x]
  /\ nextId' = IF x = Nil THEN nextId + 1 ELSE nextId
  /\ arg' = [arg EXCEPT ![p] = x]
  /\ drop' = [drop EXCEPT ![p] = d]

\* mutant: the send does not wait for a free slot
Send_Overflow(p, name) ==
  /\ pool' = Append(pool, v[p])
  /\ held' = [held EXCEPT ![p] = @ \ drop[p]]
  /\ released' = released + 1
  /\ parked' = Waiting
  /\ ret' = Result(p, name, Nil, "nil")
  /\ pc' = [pc EXCEPT ![p] = "idle"]
  /\ v' = [v EXCEPT ![p] = Nil]
  /\ arg' = [arg EXCEPT ![p] = Nil]
  /\ drop' = [drop EXCEPT ![p] = {}]
  /\ done' = [done EXCEPT ![p] = "never"]
  /\ UNCHANGED <<size, nextId, calls, acquired>>
  /\ BulkUnch

\* the send `p.pool <- v` of the three release variants
Send(p, name) ==
  /\ PoolLen < Cap
  /\ pool' = Append(pool, v[p])
  /\ held' = [held EXCEPT ![p] = @ \ drop[p]]
  /\ released' = released + 1
  /\ parked' = Waiting
  /\ ret' = Result(p, name, Nil, "nil")
  /\ pc' = [pc EXCEPT ![p] = "idle"]
  /\ v' = [v EXCEPT ![p] = Nil]
  /\ arg' = [arg EXCEPT ![p] = Nil]
  /\ drop' = [drop EXCEPT ![p] = {}]
  /\ done' = [done EXCEPT ![p] = "never"]
  /\ UNCHANGED <<size, nextId, calls, acquired>>
  /\ BulkUnch

\* mutant: the release that returns an error has sent the instance all the same
ReleaseFail_Inserted(p, name, e) ==
  /\ pool' = IF PoolLen < Cap THEN Append(pool, v[p]) ELSE pool
  /\ ret' = Result(p, name, Nil, e)
  /\ pc' = [pc EXCEPT ![p] = "idle"]
  /\ v' = [v EXCEPT ![p] = Nil]
  /\ arg' = [arg EXCEPT ![p] = Nil]
  /\ drop' = [drop EXCEPT ![p] = {}]
  /\ done' = [done EXCEPT ![p] = "never"]
  /\ UNCHANGED <<size, nextId, held, calls, acquired, released, parked>>
  /\ BulkUnch

\* a release variant returns an error: nothing is sent, the caller keeps
\* what it had
ReleaseFail(p, name, e) ==
  /\ ret' = Result(p, name, Nil, e)
  /\ pc' = [pc EXCEPT ![p] = "idle"]
  /\ v' = [v EXCEPT ![p] = Nil]
  /\ arg' = [arg EXCEPT ![p] = Nil]
  /\ drop' = [drop EXCEPT ![p] = {}]
  /\ done' = [done EXCEPT ![p] = "never"]
  /\ UNCHANGED <<size, pool, nextId, held, calls, acquired, released, parked>>
  /\ BulkUnch

ReleaseCall(p, x, d) ==
  /\ Start(p)
  /\ ReleaseArg(p, x, d)
  /\ pc' = [pc EXCEPT ![p] = "Release"]
  /\ UNCHANGED <<size, pool, done, held, acquired, released, parked>>
  /\ BulkUnch

Release(p) == pc[p] = "Release" /\ Send(p, "Release")

TryReleaseCall(p, x, d) ==
  /\ Start(p)
  /\ ReleaseArg(p, x, d)
  /\ pc' = [pc EXCEPT ![p] = "TryRelease"]
  /\ UNCHANGED <<size, pool, done, held, acquired, released, parked>>
  /\ BulkUnch

\* `select { case p.pool <- v: default: return ErrFailedToRelease }`
TryReleaseSend(p) == pc[p] = "TryRelease" /\ Send(p, "TryRelease")

\* mutant: the default case is taken although a slot is free
TryReleaseFull_Spurious(p) ==
  /\ pc[p] = "TryRelease"
  /\ ReleaseFail(p, "TryRelease", "ErrFailedToRelease")

TryReleaseFull(p) ==
  /\ pc[p] = "TryRelease"
  /\ ~(PoolLen < Cap)
  /\ ReleaseFail(p, "TryRelease", "ErrFailedToRelease")

TryReleaseWithContextCall(p, ctx, x, d) ==
  /\ Start(p)
  /\ ReleaseArg(p, x, d)
  /\ pc' = [pc EXCEPT ![p] = "TryReleaseWithContext"]
  /\ done' = [done EXCEPT ![p] = ctx]
  /\ UNCHANGED <<size, pool, held, acquired, released, parked>>
  /\ BulkUnch

TryReleaseWithContextSend(p) ==
  pc[p] = "TryReleaseWithContext" /\ Send(p, "TryReleaseWithContext")

\* mutant: a full buffer is answered at once, as the default case of
\* TryRelease does, instead of waiting for ctx.Done()
TryReleaseWithContextDone_Default(p) ==
  /\ pc[p] = "TryReleaseWithContext"
  /\ ~(PoolLen < Cap)
  /\ ReleaseFail(p, "TryReleaseWithContext", "ctx.Err")

TryReleaseWithContextDone(p) ==
  /\ pc[p] = "TryReleaseWithContext"
  /\ done[p] = "fired"
  /\ ReleaseFail(p, "TryReleaseWithContext", "ctx.Err")

\* what a caller may pass to a release variant, as <<argument, given up>>:
\* an instance it holds, or nil in place of an instance it holds and discards
PairedArgs(p) ==
  {<<x, {x}>> : x \in held[p]} \cup {<<Nil, {x}>> : x \in held[p]}
\* ... or nil without having acquired anything
OwnedArgs(p) == PairedArgs(p) \cup {<<Nil, {}>>}
\* ... or any instance still in use, held or not, which the caller keeps
AnyArgs(p) == OwnedArgs(p) \cup {<<x, {}>> : x \in Live}

\* -------------------------------------------------- Run and RunWithContext
RunUnch == UNCHANGED <<mux, i, removedInstanceCount, newInstanceCount,
                       drained, startLen, startRel, made, mark, filled>>

\* Run(fn), up to its `e := p.Acquire()`
RunCall(p) ==
  /\ Start(p)
  /\ pc' = [pc EXCEPT ![p] = "Run"]
  /\ op' = [op EXCEPT ![p] = "Run"]
  /\ UNCHANGED <<size, pool, nextId, done, held, acquired, released, parked, fnErr>>
  /\ RunUnch /\ SendUnch

\* RunWithContext(ctx, fn), up to its `p.AcquireWithContext(ctx)`; a nil ctx
\* becomes context.Background()
RunWithContextCall(p, ctx) ==
  /\ Start(p)
  /\ pc' = [pc EXCEPT ![p] = "RunWithContext"]
  /\ op' = [op EXCEPT ![p] = "RunWithContext"]
  /\ done' = [done EXCEPT ![p] = ctx]
  /\ UNCHANGED <<size, pool, nextId, held, acquired, released, parked, fnErr>>
  /\ RunUnch /\ SendUnch

\* the acquire inside Run or RunWithContext gets e; `defer p.Release(nil)` is
\* registered and fn is called with e
RunRecv(p) ==
  /\ PoolLen > 0
  /\ pool' = Tail(pool)
  /\ held' = [held EXCEPT ![p] = @ \cup {Head(pool)}]
  /\ drop' = [drop EXCEPT ![p] = {Head(pool)}]
  /\ acquired' = acquired + 1
  /\ pc' = [pc EXCEPT ![p] = "fn"]
  /\ done' = [done EXCEPT ![p] = "never"]
  /\ UNCHANGED <<size, nextId, v, arg, op, ret, calls, released, parked, fnErr>>
  /\ RunUnch

RunAcquire(p) == pc[p] = "Run" /\ RunRecv(p)

RunWithContextRecv(p) == pc[p] = "RunWithContext" /\ RunRecv(p)

\* `if err != nil { return err }`: nothing was acquired, nothing is released
RunWithContextDone(p) ==
  /\ pc[p] = "RunWithContext"
  /\ done[p] = "fired"
  /\ ret' = Result(p, "RunWithContext", Nil, "ctx.Err")
  /\ pc' = [pc EXCEPT ![p] = "idle"]
  /\ op' = [op EXCEPT ![p] = ""]
  /\ done' = [done EXCEPT ![p] = "never"]
  /\ UNCHANGED <<size, pool, nextId, held, calls, acquired, released, parked, fnErr>>
  /\ RunUnch /\ SendUnch

\* mutant: the deferred call gives e back, as `defer p.Release(e)` would
RunFn_SameInstance(p, r) ==
  /\ pc[p] = "fn"
  /\ fnErr' = [fnErr EXCEPT ![p] = r]
  /\ v' = [v EXCEPT ![p] = CHOOSE e \in drop[p] : TRUE]
  /\ arg' = [arg EXCEPT ![p] = CHOOSE e \in drop[p] : TRUE]
  /\ drop' = drop
  /\ nextId' = nextId
  /\ pc' = [pc EXCEPT ![p] = "RunRelease"]
  /\ UNCHANGED <<size, pool, done, op, ret, held, calls, acquired, released, parked>>
  /\ RunUnch

\* fn returns r (or panics) and the deferred Release(nil) starts: its
\* `if v == nil { v = p.factoryFunc() }`
RunFn(p, r) ==
  /\ pc[p] = "fn"
  /\ fnErr' = [fnErr EXCEPT ![p] = r]
  /\ ReleaseArg(p, Nil, drop[p])
  /\ pc' = [pc EXCEPT ![p] = "RunRelease"]
  /\ UNCHANGED <<size, pool, done, op, ret, held, calls, acquired, released, parked>>
  /\ RunUnch

\* the deferred Release's `p.pool <- v`, then Run returns what fn returned
RunRelease(p) ==
  /\ pc[p] = "RunRelease"
  /\ PoolLen < Cap
  /\ pool' = Append(pool, v[p])
  /\ held' = [held EXCEPT ![p] = @ \ drop[p]]
  /\ released' = released + 1
  /\ parked' = Waiting
  /\ ret' = Result(p, op[p], Nil, fnErr[p])
  /\ pc' = [pc EXCEPT ![p] = "idle"]
  /\ op' = [op EXCEPT ![p] = ""]
  /\ fnErr' = [fnErr EXCEPT ![p] = "nil"]
  /\ v' = [v EXCEPT ![p] = Nil]
  /\ arg' = [arg EXCEPT ![p] = Nil]
  /\ drop' = [drop EXCEPT ![p] = {}]
  /\ UNCHANGED <<size, nextId, done, calls, acquired>>
  /\ RunUnch

\* ------------------------------------------------------- bulk operations
OrdUnch == UNCHANGED <<v, arg, drop, held, acquired, released, parked>>

\* the bodies that race every step against a deadline: UpdateWithTimeout,
\* and the function TestUpdateTimeout passes to LockedRun
TimedOps == {"UpdateWithTimeout", "LockedRunTimeout"}

UpdateCall(p) ==
  /\ Start(p)
  /\ pc' = [pc EXCEPT ![p] = "Lock"]
  /\ op' = [op EXCEPT ![p] = "Update"]
  /\ UNCHANGED <<drained, size, pool, mux, nextId, done, i, removedInstanceCount,
                 newInstanceCount, startLen, startRel,
                 fnErr, made, mark, filled>>
  /\ OrdUnch

UpdateWithTimeoutCall(p) ==
  /\ Start(p)
  /\ pc' = [pc EXCEPT ![p] = "Lock"]
  /\ op' = [op EXCEPT ![p] = "UpdateWithTimeout"]
  /\ UNCHANGED <<drained, size, pool, mux, nextId, done, i, removedInstanceCount,
                 newInstanceCount, startLen, startRel,
                 fnErr, made, mark, filled>>
  /\ OrdUnch

\* the outcomes of a caller's function: nil, an error, or a panic
FnResults == {"nil", "error", "panic"}

\* the functions given to LockedRun: one that leaves the buffer alone, the
\* one of TestUpdate and the one of TestUpdateTimeout
LockedRunFuncs == {"LockedRun", "LockedRunUpdate", "LockedRunTimeout"}

\* LockedRun(f); TestUpdateTimeout makes its timer tc before the call
LockedRunCall(p, f) ==
  /\ Start(p)
  /\ pc' = [pc EXCEPT ![p] = "Lock"]
  /\ op' = [op EXCEPT ![p] = f]
  /\ done' = [done EXCEPT ![p] = IF f = "LockedRunTimeout" THEN "pending" ELSE @]
  /\ UNCHANGED <<drained, size, pool, mux, nextId, i, removedInstanceCount,
                 newInstanceCount, startLen, startRel,
                 fnErr, made, mark, filled>>
  /\ OrdUnch

\* mutant: the body is entered without waiting for the mutex
Lock_NoWait(p) ==
  /\ pc[p] = "Lock"
  /\ mux' = p
  /\ pc' = [pc EXCEPT ![p] = IF op[p] = "LockedRun" THEN "body" ELSE "drain"]
  /\ i' = [i EXCEPT ![p] = 0]
  /\ done' = [done EXCEPT ![p] =
                IF op[p] = "UpdateWithTimeout" THEN "pending"
                ELSE IF op[p] = "LockedRunTimeout" THEN @ ELSE "never"]
  /\ startLen' = [startLen EXCEPT ![p] = PoolLen]
  /\ startRel' = [startRel EXCEPT ![p] = released]
  /\ UNCHANGED <<drained, size, pool, nextId, op, removedInstanceCount,
                 newInstanceCount, ret, calls, fnErr, made, mark, filled>>
  /\ OrdUnch

\* p.mux.Lock(), and for UpdateWithTimeout `c := time.After(to)`
Lock(p) ==
  /\ pc[p] = "Lock"
  /\ mux = NoProc
  /\ mux' = p
  /\ pc' = [pc EXCEPT ![p] = IF op[p] = "LockedRun" THEN "body" ELSE "drain"]
  /\ i' = [i EXCEPT ![p] = 0]
  /\ done' = [done EXCEPT ![p] =
                IF op[p] = "UpdateWithTimeout" THEN "pending"
                ELSE IF op[p] = "LockedRunTimeout" THEN @ ELSE "never"]
  /\ startLen' = [startLen EXCEPT ![p] = PoolLen]
  /\ startRel' = [startRel EXCEPT ![p] = released]
  /\ UNCHANGED <<drained, size, pool, nextId, op, removedInstanceCount,
                 newInstanceCount, ret, calls, fnErr, made, mark, filled>>
  /\ OrdUnch

\* mutant: the deferred unlock is skipped when the function does not return nil
BodyReturn_KeepLock(p, r) ==
  /\ pc[p] = "body"
  /\ fnErr' = [fnErr EXCEPT ![p] = r]
  /\ pc' = [pc EXCEPT ![p] = IF r = "nil" THEN "unlock" ELSE "idle"]
  /\ UNCHANGED <<drained, size, pool, mux, nextId, done, op, i,
                 removedInstanceCount, newInstanceCount, ret, calls,
                 startLen, startRel, made, mark, filled>>
  /\ OrdUnch

\* `return f(p)` for a function that leaves the buffer alone: it returns nil
\* or an error, or it panics; the deferred unlock is next in each case
BodyReturn(p, r) ==
  /\ pc[p] = "body"
  /\ fnErr' = [fnErr EXCEPT ![p] = r]
  /\ pc' = [pc EXCEPT ![p] = "unlock"]
  /\ UNCHANGED <<drained, size, pool, mux, nextId, done, op, i,
                 removedInstanceCount, newInstanceCount, ret, calls,
                 startLen, startRel, made, mark, filled>>
  /\ OrdUnch

\* mutant: the drain loop skips an empty buffer instead of waiting
Drain_NonBlocking(p) ==
  /\ pc[p] = "drain"
  /\ i[p] < Cap
  /\ pool' = IF PoolLen > 0 THEN Tail(pool) ELSE pool
  /\ drained' = IF PoolLen > 0 THEN drained + 1 ELSE drained
  /\ removedInstanceCount' =
       [removedInstanceCount EXCEPT
          ![p] = IF op[p] \in TimedOps THEN @ + 1 ELSE @]
  /\ IF i[p] + 1 < Cap
       THEN /\ i' = [i EXCEPT ![p] = @ + 1]
            /\ pc' = pc
            /\ mark' = mark
       ELSE /\ i' = [i EXCEPT ![p] = 0]
            /\ pc' = [pc EXCEPT ![p] = "fill"]
            /\ mark' = [mark EXCEPT ![p] = nextId]
  /\ UNCHANGED <<size, mux, nextId, done, op, newInstanceCount, ret, calls,
                 startLen, startRel, fnErr, made, filled>>
  /\ OrdUnch

\* mutant: the drain loop runs while the buffer has instances, as
\* `for len(p.pool) > 0` would, not Cap() times
Drain_ToLen(p) ==
  /\ pc[p] = "drain"
  /\ i[p] < Cap
  /\ PoolLen > 0
  /\ pool' = Tail(pool)
  /\ drained' = drained + 1
  /\ removedInstanceCount' =
       [removedInstanceCount EXCEPT
          ![p] = IF op[p] \in TimedOps THEN @ + 1 ELSE @]
  /\ IF i[p] + 1 < Cap /\ PoolLen > 1
       THEN /\ i' = [i EXCEPT ![p] = @ + 1]
            /\ pc' = pc
            /\ mark' = mark
       ELSE /\ i' = [i EXCEPT ![p] = 0]
            /\ pc' = [pc EXCEPT ![p] = "fill"]
            /\ mark' = [mark EXCEPT ![p] = nextId]
  /\ UNCHANGED <<size, mux, nextId, done, op, newInstanceCount, ret, calls,
                 startLen, startRel, fnErr, made, filled>>
  /\ OrdUnch

\* one pass of `for i := 0; i < cap(p.pool); i++ { <-p.pool }`
Drain(p) ==
  /\ pc[p] = "drain"
  /\ i[p] < Cap
  /\ PoolLen > 0
  /\ pool' = Tail(pool)
  /\ drained' = drained + 1
  /\ removedInstanceCount' =
       [removedInstanceCount EXCEPT
          ![p] = IF op[p] \in TimedOps THEN @ + 1 ELSE @]
  /\ IF i[p] + 1 < Cap
       THEN /\ i' = [i EXCEPT ![p] = @ + 1]
            /\ pc' = pc
            /\ mark' = mark
       ELSE /\ i' = [i EXCEPT ![p] = 0]
            /\ pc' = [pc EXCEPT ![p] = "fill"]
            /\ mark' = [mark EXCEPT ![p] = nextId]
  /\ UNCHANGED <<size, mux, nextId, done, op, newInstanceCount, ret, calls,
                 startLen, startRel, fnErr, made, filled>>
  /\ OrdUnch

\* mutant: the function of TestUpdateTimeout returns nil when its timer fires
DrainExpire_NoError(p) ==
  /\ pc[p] = "drain"
  /\ op[p] \in TimedOps
  /\ done[p] = "fired"
  /\ pc' = [pc EXCEPT ![p] = "unlock"]
  /\ UNCHANGED <<drained, size, pool, mux, nextId, done, op, i, removedInstanceCount,
                 newInstanceCount, ret, calls, startLen, startRel,
                 fnErr, made, mark, filled>>
  /\ OrdUnch

\* `case <-c: return` in the drain loop of a deadline-bounded body; the
\* function of TestUpdateTimeout returns its timeout error here
DrainExpire(p) ==
  /\ pc[p] = "drain"
  /\ op[p] \in TimedOps
  /\ done[p] = "fired"
  /\ pc' = [pc EXCEPT ![p] = "unlock"]
  /\ fnErr' = [fnErr EXCEPT
                 ![p] = IF op[p] = "LockedRunTimeout" THEN "timeout" ELSE @]
  /\ UNCHANGED <<drained, size, pool, mux, nextId, done, op, i, removedInstanceCount,
                 newInstanceCount, ret, calls, startLen, startRel,
                 made, mark, filled>>
  /\ OrdUnch

\* what the steps of a fill pass leave alone of the callers' state
FillUnch == UNCHANGED <<arg, drop, held, acquired, released, parked>>

\* a pass of `for i := 0; i < cap(p.pool); i++ { p.pool <- p.creator() }`
\* begins: the operand of the send is evaluated, which calls the factory; in
\* the deadline-bounded bodies this happens on entering the select
FillCreate(p) ==
  /\ pc[p] = "fill"
  /\ i[p] < Cap
  /\ v' = [v EXCEPT ![p] = nextId]
  /\ nextId' = nextId + 1
  /\ made' = [made EXCEPT ![p] = @ \cup {nextId}]
  /\ pc' = [pc EXCEPT ![p] = "send"]
  /\ UNCHANGED <<drained, size, pool, mux, done, op, i, removedInstanceCount,
                 newInstanceCount, ret, calls, startLen, startRel,
                 fnErr, mark, filled>>
  /\ FillUnch

\* the send of the pass completes; it waits while the buffer is full
Fill(p) ==
  /\ pc[p] = "send"
  /\ PoolLen < Cap
  /\ pool' = Append(pool, v[p])
  /\ v' = [v EXCEPT ![p] = Nil]
  /\ newInstanceCount' =
       [newInstanceCount EXCEPT
          ![p] = IF op[p] \in TimedOps THEN @ + 1 ELSE @]
  /\ filled' = filled + 1
  /\ i' = [i EXCEPT ![p] = @ + 1]
  /\ pc' = [pc EXCEPT ![p] = IF i[p] + 1 < Cap THEN "fill" ELSE "unlock"]
  /\ UNCHANGED <<drained, size, mux, nextId, done, op, removedInstanceCount,
                 ret, calls, startLen, startRel, fnErr, made, mark>>
  /\ FillUnch

\* mutant: the instance made for the insert that lost against the timer is
\* put into the buffer all the same, uncounted
FillExpire_Sends(p) ==
  /\ pc[p] = "send"
  /\ op[p] \in TimedOps
  /\ done[p] = "fired"
  /\ PoolLen < Cap
  /\ pool' = Append(pool, v[p])
  /\ v' = [v EXCEPT ![p] = Nil]
  /\ pc' = [pc EXCEPT ![p] = "unlock"]
  /\ fnErr' = [fnErr EXCEPT
                 ![p] = IF op[p] = "LockedRunTimeout" THEN "timeout" ELSE @]
  /\ UNCHANGED <<drained, size, mux, nextId, done, op, i, removedInstanceCount,
                 newInstanceCount, ret, calls, startLen, startRel,
                 made, mark, filled>>
  /\ FillUnch

\* mutant: the insert that lost against the timer is counted all the same
FillExpire_Counted(p) ==
  /\ pc[p] = "send"
  /\ op[p] \in TimedOps
  /\ done[p] = "fired"
  /\ v' = [v EXCEPT ![p] = Nil]
  /\ pc' = [pc EXCEPT ![p] = "unlock"]
  /\ newInstanceCount' = [newInstanceCount EXCEPT ![p] = @ + 1]
  /\ fnErr' = [fnErr EXCEPT
                 ![p] = IF op[p] = "LockedRunTimeout" THEN "timeout" ELSE @]
  /\ UNCHANGED <<drained, size, pool, mux, nextId, done, op, i,
                 removedInstanceCount, ret, calls, startLen, startRel,
                 made, mark, filled>>
  /\ FillUnch

\* `case <-c: return` in the fill loop of a deadline-bounded body; the
\* instance the factory made for the send is discarded
FillExpire(p) ==
  /\ pc[p] = "send"
  /\ op[p] \in TimedOps
  /\ done[p] = "fired"
  /\ v' = [v EXCEPT ![p] = Nil]
  /\ pc' = [pc EXCEPT ![p] = "unlock"]
  /\ fnErr' = [fnErr EXCEPT
                 ![p] = IF op[p] = "LockedRunTimeout" THEN "timeout" ELSE @]
  /\ UNCHANGED <<drained, size, pool, mux, nextId, done, op, i,
                 removedInstanceCount, newInstanceCount, ret, calls,
                 startLen, startRel, made, mark, filled>>
  /\ FillUnch

\* the deferred p.mux.Unlock() and the return; LockedRun returns what its
\* function returned
Unlock(p) ==
  /\ pc[p] = "unlock"
  /\ mux' = NoProc
  /\ ret' = [by |-> p, op |-> op[p], val |-> Nil, err |-> fnErr[p],
             removed |-> removedInstanceCount[p],
             added |-> newInstanceCount[p]]
  /\ pc' = [pc EXCEPT ![p] = "idle"]
  /\ op' = [op EXCEPT ![p] = ""]
  /\ i' = [i EXCEPT ![p] = 0]
  /\ done' = [done EXCEPT ![p] = "never"]
  /\ removedInstanceCount' = [removedInstanceCount EXCEPT ![p] = 0]
  /\ newInstanceCount' = [newInstanceCount EXCEPT ![p] = 0]
  /\ startLen' = [startLen EXCEPT ![p] = 0]
  /\ startRel' = [startRel EXCEPT ![p] = 0]
  /\ fnErr' = [fnErr EXCEPT ![p] = "nil"]
  /\ made' = [made EXCEPT ![p] = {}]
  /\ mark' = [mark EXCEPT ![p] = 0]
  /\ UNCHANGED <<drained, size, pool, nextId, calls, filled>>
  /\ OrdUnch

\* --------------------------------------------------------- specifications
\* any callers at all: they may release what they never acquired
Next == \E p \in Procs :
  \/ Fire(p)
  \/ AcquireCall(p)
  \/ Acquire(p)
  \/ AcquireWithTimeoutCall(p)
  \/ AcquireWithTimeoutRecv(p)
  \/ AcquireWithTimeoutExpire(p)
  \/ \E ctx \in CtxStates : AcquireWithContextCall(p, ctx)
  \/ AcquireWithContextRecv(p)
  \/ AcquireWithContextDone(p)
  \/ \E a \in AnyArgs(p) : ReleaseCall(p, a[1], a[2])
  \/ Release(p)
  \/ \E a \in AnyArgs(p) : TryReleaseCall(p, a[1], a[2])
  \/ TryReleaseSend(p)
  \/ TryReleaseFull(p)
  \/ \E a \in AnyArgs(p), ctx \in CtxStates :
        TryReleaseWithContextCall(p, ctx, a[1], a[2])
  \/ TryReleaseWithContextSend(p)
  \/ TryReleaseWithContextDone(p)
  \/ UpdateCall(p)
  \/ UpdateWithTimeoutCall(p)
  \/ Lock(p)
  \/ Drain(p)
  \/ DrainExpire(p)
  \/ FillCreate(p)
  \/ Fill(p)
  \/ FillExpire(p)
  \/ Unlock(p)

Spec == Init /\ [][Next]_vars

\* every way of taking an instance from the buffer and of putting one in,
\* short of the bulk operations: the acquires, the releases of any callers,
\* Run and RunWithContext
NextWaiters == \E p \in Procs :
  \/ Fire(p)
  \/ AcquireCall(p)
  \/ Acquire(p)
  \/ AcquireWithTimeoutCall(p)
  \/ AcquireWithTimeoutRecv(p)
  \/ AcquireWithTimeoutExpire(p)
  \/ \E ctx \in CtxStates : AcquireWithContextCall(p, ctx)
  \/ AcquireWithContextRecv(p)
  \/ AcquireWithContextDone(p)
  \/ \E a \in AnyArgs(p) : ReleaseCall(p, a[1], a[2])
  \/ Release(p)
  \/ \E a \in AnyArgs(p) : TryReleaseCall(p, a[1], a[2])
  \/ TryReleaseSend(p)
  \/ TryReleaseFull(p)
  \/ \E a \in AnyArgs(p), ctx \in CtxStates :
        TryReleaseWithContextCall(p, ctx, a[1], a[2])
  \/ TryReleaseWithContextSend(p)
  \/ TryReleaseWithContextDone(p)
  \/ RunCall(p)
  \/ \E ctx \in CtxStates : RunWithContextCall(p, ctx)
  \/ RunAcquire(p)
  \/ RunWithContextRecv(p)
  \/ RunWithContextDone(p)
  \/ \E r \in FnResults : RunFn(p, r)
  \/ RunRelease(p)

\* these callers with the scheduling Go guarantees a goroutine blocked in the
\* receive of Acquire, called directly or by Run: once the channel has an
\* instance for it, it runs
SpecWaiters ==
  /\ Init
  /\ [][NextWaiters]_vars
  /\ \A p \in Procs :
       /\ WF_vars(Acquire(p))
       /\ WF_vars(RunAcquire(p))


\* callers that pass to a release only an instance they hold, or nil
NextOwned == \E p \in Procs :
  \/ Fire(p)
  \/ AcquireCall(p)
  \/ Acquire(p)
  \/ AcquireWithTimeoutCall(p)
  \/ AcquireWithTimeoutRecv(p)
  \/ AcquireWithTimeoutExpire(p)
  \/ \E ctx \in CtxStates : AcquireWithContextCall(p, ctx)
  \/ AcquireWithContextRecv(p)
  \/ AcquireWithContextDone(p)
  \/ \E a \in OwnedArgs(p) : ReleaseCall(p, a[1], a[2])
  \/ Release(p)
  \/ \E a \in OwnedArgs(p) : TryReleaseCall(p, a[1], a[2])
  \/ TryReleaseSend(p)
  \/ TryReleaseFull(p)
  \/ \E a \in OwnedArgs(p), ctx \in CtxStates :
        TryReleaseWithContextCall(p, ctx, a[1], a[2])
  \/ TryReleaseWithContextSend(p)
  \/ TryReleaseWithContextDone(p)
  \/ UpdateCall(p)
  \/ UpdateWithTimeoutCall(p)
  \/ Lock(p)
  \/ Drain(p)
  \/ DrainExpire(p)
  \/ FillCreate(p)
  \/ Fill(p)
  \/ FillExpire(p)
  \/ Unlock(p)

SpecOwned == Init /\ [][NextOwned]_vars

\* ordinary traffic only, one release per successful acquire.  The default
\* case of TryRelease is left out of the list because it is never enabled
\* here, which C3_PairedConservation states.
NextPaired == \E p \in Procs :
  \/ Fire(p)
  \/ AcquireCall(p)
  \/ Acquire(p)
  \/ AcquireWithTimeoutCall(p)
  \/ AcquireWithTimeoutRecv(p)
  \/ AcquireWithTimeoutExpire(p)
  \/ \E ctx \in CtxStates : AcquireWithContextCall(p, ctx)
  \/ AcquireWithContextRecv(p)
  \/ AcquireWithContextDone(p)
  \/ \E a \in PairedArgs(p) : ReleaseCall(p, a[1], a[2])
  \/ Release(p)
  \/ \E a \in PairedArgs(p) : TryReleaseCall(p, a[1], a[2])
  \/ TryReleaseSend(p)
  \/ \E a \in PairedArgs(p), ctx \in CtxStates :
        TryReleaseWithContextCall(p, ctx, a[1], a[2])
  \/ TryReleaseWithContextSend(p)
  \/ TryReleaseWithContextDone(p)

SpecPaired == Init /\ [][NextPaired]_vars

\* callers of Run and RunWithContext whose functions leave the pool alone,
\* next to callers that pair every acquire with one release
NextRun == \E p \in Procs :
  \/ Fire(p)
  \/ AcquireCall(p)
  \/ Acquire(p)
  \/ \E a \in PairedArgs(p) : ReleaseCall(p, a[1], a[2])
  \/ Release(p)
  \/ RunCall(p)
  \/ \E ctx \in CtxStates : RunWithContextCall(p, ctx)
  \/ RunAcquire(p)
  \/ RunWithContextRecv(p)
  \/ RunWithContextDone(p)
  \/ \E r \in FnResults : RunFn(p, r)
  \/ RunRelease(p)

SpecRun == Init /\ [][NextRun]_vars

\* both refreshes next to callers that make one release per successful
\* acquire; the default case of TryRelease is never enabled here either
NextRefresh == \E p \in Procs :
  \/ Fire(p)
  \/ AcquireCall(p)
  \/ Acquire(p)
  \/ AcquireWithTimeoutCall(p)
  \/ AcquireWithTimeoutRecv(p)
  \/ AcquireWithTimeoutExpire(p)
  \/ \E ctx \in CtxStates : AcquireWithContextCall(p, ctx)
  \/ AcquireWithContextRecv(p)
  \/ AcquireWithContextDone(p)
  \/ \E a \in PairedArgs(p) : ReleaseCall(p, a[1], a[2])
  \/ Release(p)
  \/ \E a \in PairedArgs(p) : TryReleaseCall(p, a[1], a[2])
  \/ TryReleaseSend(p)
  \/ \E a \in PairedArgs(p), ctx \in CtxStates :
        TryReleaseWithContextCall(p, ctx, a[1], a[2])
  \/ TryReleaseWithContextSend(p)
  \/ TryReleaseWithContextDone(p)
  \/ UpdateCall(p)
  \/ UpdateWithTimeoutCall(p)
  \/ Lock(p)
  \/ Drain(p)
  \/ DrainExpire(p)
  \/ FillCreate(p)
  \/ Fill(p)
  \/ FillExpire(p)
  \/ Unlock(p)

SpecRefresh == Init /\ [][NextRefresh]_vars



\* LockedRun with the three kinds of function, next to both refreshes and
\* to callers of Acquire and Release
NextLocked == \E p \in Procs :
  \/ Fire(p)
  \/ AcquireCall(p)
  \/ Acquire(p)
  \/ \E a \in OwnedArgs(p) : ReleaseCall(p, a[1], a[2])
  \/ Release(p)
  \/ UpdateCall(p)
  \/ UpdateWithTimeoutCall(p)
  \/ \E f \in LockedRunFuncs : LockedRunCall(p, f)
  \/ Lock(p)
  \/ \E r \in FnResults : BodyReturn(p, r)
  \/ Drain(p)
  \/ DrainExpire(p)
  \/ FillCreate(p)
  \/ Fill(p)
  \/ FillExpire(p)
  \/ Unlock(p)

SpecLocked == Init /\ [][NextLocked]_vars

\* the same, with the scheduling Go guarantees a goroutine that can go on:
\* the factory call of a fill pass is made, a select whose timer case is
\* ready does not wait for ever, and the deferred unlock runs
SpecLockedFair ==
  /\ SpecLocked
  /\ \A p \in Procs :
       /\ WF_vars(DrainExpire(p))
       /\ WF_vars(FillCreate(p))
       /\ WF_vars(FillExpire(p))
       /\ WF_vars(Unlock(p))


\* ------------------------------------------------------------- the claims
AcquirePcs == {"Acquire", "AcquireWithTimeout", "AcquireWithContext"}
ReleasePcs == {"Release", "TryRelease", "TryReleaseWithContext"}
BodyPcs == {"body", "drain", "fill", "send", "unlock"}

RECURSIVE SumHeld(_)
SumHeld(S) ==
  IF S = {} THEN 0
  ELSE LET p == CHOOSE q \in S : TRUE
       IN Cardinality(held[p]) + SumHeld(S \ {p})
\* the instances checked out
Outstanding == SumHeld(Procs)

\* C1: the number of buffered instances is always between 0 and Cap(), and
\* Cap() never changes from the capacity given to NewPool, whatever the
\* callers do.
C1_LenWithinCap ==
  /\ [](0 <= PoolLen /\ PoolLen <= Cap)
  /\ [][Cap' = Cap]_vars

\* an over-releasing caller is inside a release while the buffer is full
C1_Witness ==
  \E p \in Procs :
    pc[p] \in ReleasePcs /\ drop[p] = {} /\ PoolLen = Cap /\ released > 0

\* C2: with a factory of distinct instances and callers that release only
\* what they hold (or nil), no instance is held by two callers, none is both
\* buffered and held, and none is buffered twice.
C2_ExclusiveOwnership ==
  /\ \A p, q \in Procs : p # q => held[p] \cap held[q] = {}
  /\ \A p \in Procs : held[p] \cap Elems(pool) = {}
  /\ \A j, k \in 1..PoolLen : j # k => pool[j] # pool[k]

\* two callers hold instances while a released one is back in the buffer
C2_Witness ==
  /\ \E p, q \in Procs : p # q /\ held[p] # {} /\ held[q] # {}
  /\ released > 0

\* C3: with ordinary traffic and one release per successful acquire,
\* buffered + outstanding = capacity in every state, so Len() = Cap() again
\* once everything acquired has been released; TryRelease never finds the
\* buffer full.
C3_PairedConservation ==
  /\ PoolLen + Outstanding = Cap
  /\ (Outstanding = 0 => PoolLen = Cap)
  /\ \A p \in Procs : ~ENABLED TryReleaseFull(p)

\* instances were acquired, one acquire failed, and all are back
C3_Witness ==
  /\ acquired > 0
  /\ released = acquired
  /\ ret.err # "nil"
  /\ PoolLen = Cap

TimedPcs == {"AcquireWithTimeout", "AcquireWithContext"}

\* C4: an acquire returns an instance only from a non-empty buffer, and then
\* the oldest one; on an empty buffer the blocking Acquire does not return
\* and the timeout and context variants return an error and no instance;
\* an empty buffer becomes non-empty only by an insertion (a release, or the
\* fill step of a refresh body).
C4_AcquireNeedsInstance ==
  [][\A p \in Procs :
      /\ (pc[p] \in AcquirePcs /\ pc'[p] = "idle") =>
           /\ ret'.by = p
           /\ IF PoolLen = 0
                THEN /\ pc[p] \in TimedPcs
                     /\ ret'.err # "nil"
                     /\ ret'.val = Nil
                     /\ pool' = pool
                     /\ held' = held
                ELSE ret'.err = "nil" =>
                     /\ ret'.val = Head(pool)
                     /\ pool' = Tail(pool)
      /\ (PoolLen = 0 /\ Len(pool') > 0) =>
           \/ released' = released + 1
           \/ \E q \in Procs : pc[q] = "send" /\ i'[q] = i[q] + 1
    ]_vars

\* everything is checked out and an AcquireWithTimeout has timed out
C4_Witness ==
  /\ PoolLen = 0
  /\ Outstanding = Cap
  /\ ret.op = "AcquireWithTimeout"
  /\ ret.err = "timeout"

\* C5: completed acquires never exceed the capacity plus the releases made;
\* while nothing has been released or drained exactly Cap() - Len() acquires
\* have returned; a caller suspended in Acquire can return exactly when the
\* buffer is non-empty.
C5_AcquiresBounded ==
  /\ acquired <= Cap + released
  /\ (released = 0 /\ drained = 0) => acquired = Cap - PoolLen
  /\ \A p \in Procs :
       pc[p] = "Acquire" => (ENABLED Acquire(p) <=> PoolLen > 0)

\* K acquires have returned on a fresh pool and one more caller is suspended
C5_Witness ==
  /\ released = 0
  /\ drained = 0
  /\ acquired = Cap
  /\ \E p \in Procs : pc[p] = "Acquire" /\ ~ENABLED Acquire(p)

\* C6: an AcquireWithTimeout or AcquireWithContext that returns an error
\* returns no instance and has not touched the buffer, neither when it was
\* called nor when it returned.
C6_FailedAcquireKeepsBuffer ==
  [][\A p \in Procs :
      /\ (pc[p] = "idle" /\ pc'[p] \in TimedPcs) =>
           (pool' = pool /\ held' = held)
      /\ (pc[p] \in TimedPcs /\ pc'[p] = "idle" /\ ret'.err # "nil") =>
           /\ ret'.by = p
           /\ ret'.val = Nil
           /\ pool' = pool
           /\ held' = held
    ]_vars

\* an acquire failed although an instance was buffered at that moment
C6_Witness ==
  /\ ret.op \in TimedPcs
  /\ ret.err # "nil"
  /\ PoolLen > 0
  /\ \E p \in Procs : pc[p] # "idle"

\* C7: TryRelease never suspends; on a full buffer it returns
\* ErrFailedToRelease and leaves the buffer alone, otherwise it appends the
\* passed instance, or a factory-made one for nil, and returns nil.
C7_TryRelease ==
  /\ [](\A p \in Procs :
          pc[p] = "TryRelease" =>
            /\ ENABLED (TryReleaseSend(p) \/ TryReleaseFull(p))
            /\ v[p] # Nil
            /\ arg[p] # Nil => v[p] = arg[p]
            /\ arg[p] = Nil => v[p] \notin Live)
  /\ [][\A p \in Procs :
          /\ (pc[p] = "idle" /\ pc'[p] = "TryRelease" /\ arg'[p] = Nil) =>
               (v'[p] = nextId /\ nextId' = nextId + 1)
          /\ (pc[p] = "TryRelease" /\ pc'[p] = "idle") =>
               /\ ret'.by = p
               /\ IF PoolLen = Cap
                    THEN ret'.err = "ErrFailedToRelease" /\ pool' = pool
                    ELSE ret'.err = "nil" /\ pool' = Append(pool, v[p])
       ]_vars

\* a TryRelease has just failed on a full buffer
C7_Witness ==
  /\ ret.op = "TryRelease"
  /\ ret.err = "ErrFailedToRelease"
  /\ PoolLen = Cap

\* C8 as claimed: a Release(nil) can complete in every state, also when the
\* buffer is at capacity.
C8_ReleaseNilAlwaysCompletes ==
  \A p \in Procs : (pc[p] = "Release" /\ arg[p] = Nil) => ENABLED Release(p)

\* C8 amended: a Release(nil) can complete exactly when the buffer is not
\* full; it sends an instance the factory made for this call, and when it
\* completes Len() has grown by one, that instance being the newest.
C8_ReleaseNilWhenRoom ==
  /\ [](\A p \in Procs :
          (pc[p] = "Release" /\ arg[p] = Nil) =>
            /\ ENABLED Release(p) <=> PoolLen < Cap
            /\ v[p] # Nil
            /\ v[p] \notin Live)
  /\ [][\A p \in Procs :
          /\ (pc[p] = "idle" /\ pc'[p] = "Release" /\ arg'[p] = Nil) =>
               (v'[p] = nextId /\ nextId' = nextId + 1 /\ pool' = pool)
          /\ (pc[p] = "Release" /\ pc'[p] = "idle" /\ arg[p] = Nil) =>
               /\ ret'.by = p
               /\ ret'.err = "nil"
               /\ Len(pool') = PoolLen + 1
               /\ pool' = Append(pool, v[p])
       ]_vars

\* the only insertion so far was a Release(nil), of an instance made after
\* construction
C8_Witness ==
  /\ ret.op = "Release"
  /\ released = 1
  /\ drained = 0
  /\ PoolLen > 0
  /\ pool[PoolLen] > Cap

\* C9: at most one goroutine is inside the body of a bulk operation, and it
\* is the one holding the mutex.
C9_BodiesExclusive ==
  /\ Cardinality({p \in Procs : pc[p] \in BodyPcs}) <= 1
  /\ \A p \in Procs : pc[p] \in BodyPcs => mux = p
  /\ mux # NoProc => pc[mux] \in BodyPcs

\* one bulk operation runs its body while another waits for the mutex
C9_Witness ==
  \E p, q \in Procs : pc[p] \in BodyPcs /\ pc[q] = "Lock"

\* C10: an Update that took the mutex when the buffer was empty is past its
\* drain loop only after at least Cap() releases by other callers, and while
\* the buffer is empty it can take no step.
C10_UpdateWaitsForReleases ==
  \A p \in Procs :
    op[p] = "Update" =>
      /\ (pc[p] \in {"fill", "send", "unlock"} /\ startLen[p] = 0) =>
            released - startRel[p] >= Cap
      /\ (pc[p] = "drain" /\ PoolLen = 0) =>
            ~ENABLED (Drain(p) \/ DrainExpire(p) \/ FillCreate(p) \/ Fill(p)
                        \/ Unlock(p))

\* such an Update has finished draining
C10_Witness ==
  \E p \in Procs :
    op[p] = "Update" /\ pc[p] \in {"fill", "send", "unlock"} /\ startLen[p] = 0

\* a deadline-bounded body that took the mutex when the buffer was empty and
\* has seen no release complete since
Starved(p) ==
  /\ op[p] \in TimedOps
  /\ pc[p] \in {"drain", "fill", "send", "unlock"}
  /\ startLen[p] = 0
  /\ released = startRel[p]

\* C11: a deadline-bounded refresh that finds every instance checked out and
\* sees no release cannot take a step before its deadline fires and does
\* return once it has fired; it reports removed = 0 and refilled = 0, leaves
\* the buffer empty and the mutex free, and when it is the function that
\* TestUpdateTimeout gives to LockedRun, LockedRun returns its timeout error.
C11_StarvedRefreshTimesOut ==
  /\ [](\A p \in Procs :
          Starved(p) =>
            /\ PoolLen = 0
            /\ pc[p] \notin {"fill", "send"}
            /\ removedInstanceCount[p] = 0
            /\ newInstanceCount[p] = 0
            /\ pc[p] = "drain" =>
                 /\ ~ENABLED Drain(p)
                 /\ ENABLED DrainExpire(p) <=> done[p] = "fired"
            /\ (pc[p] = "unlock" /\ op[p] = "LockedRunTimeout") =>
                 fnErr[p] = "timeout")
  /\ [][\A p \in Procs :
          (Starved(p) /\ pc[p] = "unlock" /\ pc'[p] = "idle") =>
            /\ ret'.by = p
            /\ ret'.removed = 0
            /\ ret'.added = 0
            /\ op[p] = "LockedRunTimeout" => ret'.err = "timeout"
            /\ Len(pool') = 0
            /\ mux' = NoProc
       ]_vars
  /\ \A p \in Procs : (Starved(p) /\ done[p] = "fired") ~> (pc[p] = "idle")

\* every instance is checked out and the function of TestUpdateTimeout has
\* returned its timeout error through LockedRun with both counts at 0
C11_Witness ==
  /\ ret.op = "LockedRunTimeout"
  /\ ret.err = "timeout"
  /\ ret.removed = 0
  /\ ret.added = 0
  /\ Outstanding = Cap
  /\ released = 0
  /\ PoolLen = 0
  /\ mux = NoProc

\* C12: once the deadline of a deadline-bounded refresh has fired, the refresh
\* takes no further drain or insert step, so the counts it reports are the
\* ones it had when the deadline fired.
C12_NoStepAfterDeadline ==
  [][\A p \in Procs :
       (op[p] \in TimedOps /\ pc[p] \in {"drain", "fill", "send"}
        /\ done[p] = "fired") =>
         /\ removedInstanceCount'[p] = removedInstanceCount[p]
         /\ newInstanceCount'[p] = newInstanceCount[p]
         /\ pool' = pool \/ \E q \in Procs \ {p} : pc'[q] # pc[q]
         /\ pc'[p] \in {pc[p], "send", "unlock"}
    ]_vars

\* C13: an AcquireWithTimeout, AcquireWithContext or TryReleaseWithContext
\* whose deadline has expired or whose context is canceled before its buffer
\* operation returns the timeout or cancellation error and leaves the buffer
\* as it is, even with an instance or a free slot available.
C13_ExpiredCallDoesNothing ==
  [][\A p \in Procs :
       /\ pc[p] \in {"AcquireWithTimeout", "AcquireWithContext",
                     "TryReleaseWithContext"}
       /\ done[p] = "fired"
       /\ pc'[p] = "idle"
       => /\ ret'.by = p
          /\ ret'.err = IF pc[p] = "AcquireWithTimeout" THEN "timeout" ELSE "ctx.Err"
          /\ pool' = pool
    ]_vars

\* C14: a TryReleaseWithContext can go on only by sending, which needs a free
\* slot, or by its context's Done, which needs the context canceled; on a full
\* buffer it waits.  It returns nil exactly when it has appended its instance
\* (Len() grows by one), it returns the context's error only after the
\* cancellation and then leaves the buffer as it was, and a nil context is
\* context.Background(), which never cancels.
C14_TryReleaseWithContext ==
  /\ [](\A p \in Procs :
          pc[p] = "TryReleaseWithContext" =>
            /\ ENABLED TryReleaseWithContextSend(p) <=> PoolLen < Cap
            /\ ENABLED TryReleaseWithContextDone(p) <=> done[p] = "fired"
            /\ done[p] = "never" => ~ENABLED Fire(p))
  /\ [][\A p \in Procs :
          pc[p] = "TryReleaseWithContext" =>
            /\ done[p] = "never" => done'[p] = "never"
            /\ pc'[p] = "idle" =>
                 /\ ret'.by = p
                 /\ \/ /\ ret'.err = "nil"
                       /\ PoolLen < Cap
                       /\ pool' = Append(pool, v[p])
                       /\ Len(pool') = PoolLen + 1
                    \/ /\ ret'.err = "ctx.Err"
                       /\ done[p] = "fired"
                       /\ pool' = pool
       ]_vars

\* a TryReleaseWithContext has returned the context's error and the buffer
\* is full, while another one with a context that never cancels waits
C14_Witness ==
  /\ ret.op = "TryReleaseWithContext"
  /\ ret.err = "ctx.Err"
  /\ PoolLen = Cap
  /\ \E q \in Procs : pc[q] = "TryReleaseWithContext" /\ done[q] = "never"

\* C15: Run acquires one instance for fn and, whatever fn returns, its
\* deferred Release(nil) inserts one instance that the factory has just made
\* and that is not the one fn was given; that one is dropped, in the buffer
\* and with every caller.  Run returns what fn returned, and with functions
\* that leave the pool alone buffered plus checked out stays at Cap().
C15_Run ==
  /\ [](/\ PoolLen + Outstanding = Cap
        /\ \A p \in Procs :
             /\ pc[p] \in {"fn", "RunRelease"} =>
                  /\ Cardinality(drop[p]) = 1
                  /\ drop[p] \subseteq held[p]
                  /\ drop[p] \cap Elems(pool) = {}
             /\ pc[p] = "RunRelease" =>
                  /\ fnErr[p] \in FnResults
                  /\ arg[p] = Nil
                  /\ v[p] \notin Live \cup {Nil}
                  /\ ENABLED RunRelease(p) <=> PoolLen < Cap)
  /\ [][\A p \in Procs :
          /\ (pc[p] = "fn" /\ pc'[p] # "fn") =>
               (pc'[p] = "RunRelease" /\ v'[p] = nextId /\ pool' = pool)
          /\ (pc[p] = "RunRelease" /\ pc'[p] = "idle") =>
               /\ ret'.by = p
               /\ ret'.op = op[p]
               /\ ret'.err = fnErr[p]
               /\ pool' = Append(pool, v[p])
               /\ drop[p] \cap (Elems(pool') \cup UNION {held'[q] : q \in Procs}) = {}
               /\ Len(pool') + Outstanding' = Cap
       ]_vars

\* Run has returned its function's error; the buffer is full again and its
\* newest instance was made after construction
C15_Witness ==
  /\ ret.op = "Run"
  /\ ret.err = "error"
  /\ PoolLen = Cap
  /\ pool[PoolLen] > Cap

\* C16: LockedRun returns what its function returned, and its deferred unlock
\* runs whether the function returns nil, returns an error or panics: when no
\* goroutine is inside a LockedRun body the mutex is free, so a LockedRun
\* waiting for it can enter.
C16_LockedRunUnlocks ==
  /\ []((\A q \in Procs : pc[q] \notin BodyPcs) =>
          /\ mux = NoProc
          /\ \A p \in Procs : pc[p] = "Lock" => ENABLED Lock(p))
  /\ [][\A p \in Procs :
          /\ (pc[p] = "body" /\ pc'[p] # "body") =>
               /\ pc'[p] = "unlock"
               /\ fnErr'[p] \in FnResults
               /\ mux' = p
          /\ (pc[p] = "unlock" /\ pc'[p] # "unlock") =>
               /\ pc'[p] = "idle"
               /\ ret'.by = p
               /\ ret'.op = op[p]
               /\ ret'.err = fnErr[p]
               /\ mux' = NoProc
       ]_vars

\* a LockedRun has returned its function's error, or has panicked, and a
\* LockedRun that was waiting for the mutex is inside its body
C16_Witness ==
  /\ ret.op = "LockedRun"
  /\ ret.err \in {"error", "panic"}
  /\ \E q \in Procs : q # ret.by /\ pc[q] \in BodyPcs /\ mux = q

\* what C17 says of an Update up to its return, apart from where the
\* instances left at the return come from: the drain loop takes Cap()
\* instances, one per pass, and when it ends nothing is buffered and nothing
\* is checked out; the fill loop then inserts Cap() instances it has made
C17_DrainsAll ==
  \A p \in Procs :
    op[p] = "Update" =>
      /\ (pc[p] = "drain" /\ pc'[p] = "fill") =>
           /\ i[p] = Cap - 1
           /\ Len(pool') = 0
           /\ Outstanding' = 0
           /\ mark'[p] = nextId
      /\ (pc[p] = "drain" /\ i'[p] # i[p]) => pool' = Tail(pool)
      /\ (pc[p] = "fill" /\ pc'[p] # "fill") =>
           /\ pc'[p] = "send"
           /\ v'[p] = nextId
           /\ nextId \notin made[p] \cup Live
           /\ made'[p] = made[p] \cup {nextId}
           /\ pool' = pool
      /\ (pc[p] = "send" /\ pc'[p] # "send") =>
           /\ v[p] \in made[p]
           /\ pool' = Append(pool, v[p])
           /\ i'[p] = i[p] + 1
      /\ (pc[p] = "send" /\ pc'[p] = "unlock") =>
           /\ i[p] = Cap - 1
           /\ Cardinality(made[p]) = Cap
      /\ (pc[p] = "unlock" /\ pc'[p] = "idle") =>
           /\ ret'.by = p
           /\ Cardinality(made[p]) = Cap

\* C17: among callers that release once per acquire, an Update that returns
\* has drained Cap() instances and inserted Cap() fresh ones, nothing was
\* buffered or checked out when its drain loop ended, and at its return
\* every instance buffered or checked out was made by this Update.
C17_AllMadeByRefresh ==
  [][/\ C17_DrainsAll
     /\ \A p \in Procs :
          (op[p] = "Update" /\ pc[p] = "unlock" /\ pc'[p] = "idle") =>
            Live' \subseteq made[p]
    ]_vars

\* C17 amended: ... and at its return every instance buffered or checked out
\* was made after its drain loop ended, by the Update itself or by a
\* Release(nil) that replaced an instance the Update had inserted.
C17_NoneFromBeforeRefresh ==
  [][/\ C17_DrainsAll
     /\ \A p \in Procs :
          (op[p] = "Update" /\ pc[p] = "unlock" /\ pc'[p] = "idle") =>
            \A x \in Live' : x >= mark[p]
    ]_vars

\* an Update is about to return, and of the instances buffered or checked
\* out one was made by a Release(nil) after the drain loop ended
C17_Witness ==
  \E p \in Procs :
    /\ op[p] = "Update"
    /\ pc[p] = "unlock"
    /\ \E x \in Live : x \notin made[p] /\ x >= mark[p]
    /\ released > 0

\* what C18 says of the counts of an UpdateWithTimeout: each is raised by
\* one by each drain or insert step of this call and by nothing else, both
\* stay within 0..Cap(), nothing is inserted before Cap() instances are
\* drained, and the call returns the two counts as they are
C18_Counts ==
  /\ [](\A p \in Procs :
          op[p] = "UpdateWithTimeout" =>
            /\ removedInstanceCount[p] \in 0..Cap
            /\ newInstanceCount[p] \in 0..Cap
            /\ newInstanceCount[p] > 0 => removedInstanceCount[p] = Cap
            /\ pc[p] = "drain" => removedInstanceCount[p] = i[p]
            /\ pc[p] \in {"fill", "send"} => newInstanceCount[p] = i[p])
  /\ [][\A p \in Procs :
          (op[p] = "UpdateWithTimeout" /\ pc[p] \in BodyPcs) =>
            /\ removedInstanceCount'[p] # removedInstanceCount[p] /\ pc'[p] # "idle" =>
                 /\ removedInstanceCount'[p] = removedInstanceCount[p] + 1
                 /\ pc[p] = "drain"
                 /\ pool' = Tail(pool)
            /\ newInstanceCount'[p] # newInstanceCount[p] /\ pc'[p] # "idle" =>
                 /\ newInstanceCount'[p] = newInstanceCount[p] + 1
                 /\ pc[p] = "send"
                 /\ pool' = Append(pool, v[p])
            /\ pool' # pool =>
                 \/ removedInstanceCount'[p] # removedInstanceCount[p]
                 \/ newInstanceCount'[p] # newInstanceCount[p]
                 \/ \E q \in Procs \ {p} : pc'[q] # pc[q]
            /\ pc'[p] = "idle" =>
                 /\ ret'.by = p
                 /\ ret'.removed = removedInstanceCount[p]
                 /\ ret'.added = newInstanceCount[p]
       ]_vars

\* C18: an UpdateWithTimeout returns the numbers of drain and insert steps
\* it completed, both within 0..Cap() and refilled > 0 only with removed =
\* Cap(); among callers that release once per acquire, buffered plus checked
\* out is Cap() - removed + refilled when it returns.
C18_TotalFromCapacity ==
  /\ C18_Counts
  /\ [][\A p \in Procs :
          (op[p] = "UpdateWithTimeout" /\ pc[p] = "unlock" /\ pc'[p] = "idle") =>
            Len(pool') + Outstanding' = Cap - ret'.removed + ret'.added
       ]_vars

\* C18 amended: ... buffered plus checked out is T - removed + refilled when
\* it returns, T being what was buffered or checked out when it took the
\* mutex: Cap() less what earlier refreshes drained and did not refill.
C18_TotalFromBefore ==
  /\ C18_Counts
  /\ [](PoolLen + Outstanding = Cap - drained + filled)
  /\ [][\A p \in Procs :
          (op[p] = "UpdateWithTimeout" /\ pc[p] = "unlock" /\ pc'[p] = "idle") =>
            Len(pool') + Outstanding' =
              (Cap - (drained - removedInstanceCount[p])
                   + (filled - newInstanceCount[p]))
                - ret'.removed + ret'.added
       ]_vars

\* an UpdateWithTimeout has returned with more drained than refilled, after
\* an earlier refresh had already left the pool short
C18_Witness ==
  /\ ret.op = "UpdateWithTimeout"
  /\ ret.removed > ret.added
  /\ drained > ret.removed
  /\ PoolLen + Outstanding < Cap - ret.removed + ret.added

\* C19: the mutex of the bulk operations does not hold up ordinary calls.
\* While a goroutine is inside a locked body any other goroutine can start an
\* Acquire, a Release or a TryRelease, an Acquire can complete as soon as an
\* instance is buffered, a Release as soon as a slot is free, a TryRelease
\* always, and none of them touches the mutex; so a drain step and an
\* Acquire of another goroutine can be enabled for the same instance.
C19_LockLeavesTrafficAlone ==
  /\ [](\A p, q \in Procs :
          (mux = p /\ q # p) =>
            /\ (pc[q] = "idle" /\ calls < MaxCalls) =>
                 /\ ENABLED AcquireCall(q)
                 /\ ENABLED ReleaseCall(q, Nil, {})
                 /\ ENABLED TryReleaseCall(q, Nil, {})
            /\ pc[q] = "Acquire" => (ENABLED Acquire(q) <=> PoolLen > 0)
            /\ pc[q] = "Release" => (ENABLED Release(q) <=> PoolLen < Cap)
            /\ pc[q] = "TryRelease" =>
                 (ENABLED TryReleaseSend(q) \/ ENABLED TryReleaseFull(q))
            /\ (pc[p] = "drain" /\ pc[q] = "Acquire" /\ PoolLen > 0) =>
                 (ENABLED Drain(p) /\ ENABLED Acquire(q)))
  /\ [][\A q \in Procs :
          (pc[q] \in {"Acquire", "Release", "TryRelease"} /\ pc'[q] = "idle") =>
            mux' = mux
       ]_vars

\* a drain loop took the mutex with instances 1 and 2 buffered and has made
\* one pass, which took instance 1; nothing was ever released, and another
\* goroutine holds instance 2: its acquire came between two steps of the body
C19_Witness ==
  \E p, q \in Procs :
    /\ q # p
    /\ mux = p
    /\ pc[p] = "drain"
    /\ i[p] = 1
    /\ startLen[p] = 2
    /\ released = 0
    /\ held[q] = {2}
    /\ PoolLen = 0

\* the calls whose next step takes an instance from the buffer
TakerPcs == AcquirePcs \cup {"Run", "RunWithContext", "drain"}

\* no other goroutine is in a call that takes instances from the buffer
OnlyWaiter(p) ==
  /\ pc[p] = "Acquire"
  /\ \A q \in Procs \ {p} : pc[q] \notin TakerPcs

\* of the goroutines the last release found suspended, those that are no
\* longer in an Acquire
Resumed == {q \in parked : ~InAcquire(q)}

\* only the goroutines the last release found suspended are taking instances
OnlyParkedTake == \A q \in Procs \ parked : pc[q] \notin TakerPcs

\* C20: a goroutine in Acquire, called directly or by Run, cannot return
\* while the buffer is empty, and when it returns it takes the oldest
\* buffered instance for itself alone.  A
\* release that completes (Run's deferred one included) adds one instance
\* and moves no other goroutine.  Of the goroutines a release found
\* suspended on the empty buffer, never more than one has returned before
\* the next release.  Under weak fairness a goroutine that is the only
\* waiter and has an instance buffered does return with an instance, unless
\* another goroutine starts taking instances first; and when a release found
\* several goroutines suspended, one of them returns, unless a goroutine
\* that was not suspended starts taking instances or a further release
\* completes first.
C20_WaiterResumes ==
  /\ [](\A p \in Procs :
          /\ pc[p] = "Acquire" => (ENABLED Acquire(p) <=> PoolLen > 0)
          /\ pc[p] = "Run" => (ENABLED RunAcquire(p) <=> PoolLen > 0))
  /\ [][\A p \in Procs :
          /\ (pc[p] = "Acquire" /\ pc'[p] # "Acquire") =>
               /\ PoolLen > 0
               /\ pool' = Tail(pool)
               /\ ret' = Result(p, "Acquire", Head(pool), "nil")
               /\ \A q \in Procs \ {p} : pc'[q] = pc[q]
          /\ (pc[p] = "Run" /\ pc'[p] # "Run") =>
               /\ PoolLen > 0
               /\ pool' = Tail(pool)
               /\ pc'[p] = "fn"
               /\ Head(pool) \in held'[p]
               /\ \A q \in Procs \ {p} : pc'[q] = pc[q]
          /\ (pc[p] \in ReleasePcs /\ pc'[p] = "idle" /\ ret'.err = "nil") =>
               /\ Len(pool') = PoolLen + 1
               /\ \A q \in Procs \ {p} : pc'[q] = pc[q]
          /\ (pc[p] = "RunRelease" /\ pc'[p] = "idle") =>
               /\ Len(pool') = PoolLen + 1
               /\ \A q \in Procs \ {p} : pc'[q] = pc[q]
       ]_vars
  /\ [](Cardinality(Resumed) <= 1)
  /\ \A p \in Procs :
       (OnlyWaiter(p) /\ PoolLen > 0) ~> (pc[p] = "idle" \/ ~OnlyWaiter(p))
  /\ (/\ Cardinality(parked) >= 2
      /\ PoolLen > 0
      /\ Resumed = {}
      /\ OnlyParkedTake)
     ~> (\/ Cardinality(Resumed) = 1
         \/ ~OnlyParkedTake
         \/ Cardinality(parked) < 2)

\* a release found two goroutines suspended in Acquire on the empty buffer;
\* one of them has returned with the instance it sent, the other is still
\* suspended and the buffer is empty again
C20_Witness ==
  /\ Cardinality(parked) >= 2
  /\ released = 1
  /\ ret.op = "Acquire"
  /\ ret.by \in parked
  /\ ret.val # Nil
  /\ Resumed = {ret.by}
  /\ PoolLen = 0

\* an Update is in its drain loop and fewer than Cap() instances exist,
\* counting the ones it has drained already
Short(p) ==
  /\ op[p] = "Update"
  /\ pc[p] = "drain"
  /\ PoolLen + Outstanding + i[p] < Cap

\* C21: among callers that release once per acquire, an UpdateWithTimeout
\* that returns removed > refilled leaves fewer than Cap() instances, and
\* nothing makes that up outside a locked body.  An Update that takes the
\* mutex afterwards is short: it stays in its drain loop with the mutex for
\* ever, it is the only Update that is ever past the Lock with a shortfall,
\* and no other bulk operation can take the mutex meanwhile.
C21_ShortUpdateNeverDrains ==
  /\ [](\A p \in Procs :
          /\ (op[p] = "Update" /\ pc[p] = "drain" /\ drained - filled > i[p]) =>
               Short(p)
          /\ (op[p] = "Update" /\ pc[p] \in {"fill", "send", "unlock"}) =>
               drained - filled = (IF pc[p] = "unlock" THEN 0 ELSE Cap - i[p])
          /\ Short(p) =>
               /\ mux = p
               /\ i[p] < Cap
               /\ \A q \in Procs : pc[q] = "Lock" => ~ENABLED Lock(q))
  /\ [][/\ \A p \in Procs :
             /\ (op[p] = "UpdateWithTimeout" /\ pc[p] = "unlock" /\ pc'[p] = "idle"
                 /\ ret'.removed > ret'.added) =>
                  /\ drained' - filled' > 0
                  /\ Len(pool') + Outstanding' < Cap
             /\ (op[p] = "Update" /\ pc[p] = "Lock" /\ pc'[p] = "drain"
                 /\ PoolLen + Outstanding < Cap) => Short(p)'
             /\ Short(p) => Short(p)'
        /\ ((\A q \in Procs : pc[q] \notin BodyPcs) /\ PoolLen + Outstanding < Cap) =>
             Len(pool') + Outstanding' < Cap
       ]_vars

\* after a short UpdateWithTimeout an Update holds the mutex in its drain
\* loop with nothing buffered and nothing checked out, and another bulk
\* operation waits for the mutex
C21_Witness ==
  \E p, q \in Procs :
    /\ Short(p)
    /\ drained - filled > i[p]
    /\ PoolLen = 0
    /\ Outstanding = 0
    /\ pc[q] = "Lock"

====
